---- MODULE Spec2Model ----
(***************************************************************************)
(* The real-time stream manager of the trading dashboard: the class        *)
(* BinanceWebSocket (lib/websocket), its stream-key helpers and the        *)
(* browser WebSocket objects and timers it drives.                         *)
(*                                                                         *)
(* One action per public method and per browser callback (socket open,     *)
(* message, error, close; reconnect timeout).  JavaScript is single        *)
(* threaded: every handler runs to completion, so each is one step.        *)
(***************************************************************************)
EXTENDS Integers, Sequences, FiniteSets, Bags, TLC

(***************************************************************************)
(* Bounds of the model.                                                    *)
(***************************************************************************)
\* WebSocket objects that are not closed at the same time
MaxSockets == 2
\* reconnect timeouts pending at the same time
MaxTimers == 1
\* keepalive intervals running at the same time
MaxIntervals == 2
\* consecutive failures followed where the registries are followed too
MaxFailures == 1
\* functions returned by onConnectionChange that callers keep
MaxUnsubscribers == 2
\* BinanceWebSocket instances constructed by getWebSocketInstance
MaxInstances == 2
\* effect bodies run by the components, all together
MaxEffects == 2
\* characters of the symbols the stream-name helpers are called with
MaxSymbolLen == 2
\* stream keys in the lists createStreamUrl is called with
MaxKeys == 3

(***************************************************************************)
(* Program constants.                                                      *)
(***************************************************************************)
maxReconnectAttempts == 5
reconnectDelay == 1000

WS_BASE_URL == "wss://testnet.binance.vision/ws"

(***************************************************************************)
(* Inputs.  A symbol is a sequence of characters, so that toLowerCase is   *)
(* computed and not assumed.                                               *)
(***************************************************************************)
Symbols == { <<"B", "T">>, <<"b", "t">> }
\* the exchange sends symbols in upper case
FrameSymbols == { <<"B", "T">> }
Intervals == { "1m" }
\* the open time of the klines, in ms, and the price of the trades
OpenTime == 1999
Price == << "5", "0", ".", "1" >>
KlineHandlerIds == { "k1", "k2" }
\* the intervals and trade handlers where the dispatch of frames is followed
KlineIntervals == { "1m", "5m" }
DispatchTradeHandlerIds == { "t1", "t2" }
TradeHandlerIds == { "t1" }
ObserverIds == { "o1" }

VARIABLES
    ws,                 \* this.ws: the socket the manager refers to (readyState, url,
                        \* who created it), or NoSocket for null
    detached,           \* the sockets the manager created, no longer refers to and
                        \* that are not closed yet: how many in each readyState
    reconnectAttempts,  \* this.reconnectAttempts
    pingInterval,       \* this.pingInterval: 1 for the id of a running interval, 0 for null
    streams,            \* this.streams
    klineHandlers,      \* this.klineHandlers: stream key -> handler
    tradeHandlers,      \* this.tradeHandlers: stream key -> handler
    connectionHandlers, \* this.connectionHandlers: a Set, in insertion order
    timers,             \* pending setTimeout callbacks of attemptReconnect: a bag
    activeIntervals,    \* how many setInterval timers are not cleared yet
    pendingClose,       \* "ws" or "detached": the socket whose error event was
                        \* dispatched and whose close event follows in the same
                        \* task; "none" otherwise
    announced,          \* the state last passed to notifyConnectionState
    invoked,            \* the callbacks the last step invoked
    requested,          \* << S >> when the last of connect() and disconnect() to
                        \* run was connect(S); << >> at first and after disconnect()
    afterDisconnect,    \* disconnect() ran and connect() has not run since
    sinceOpen,          \* reconnections scheduled since the last open event
    exhausted,          \* "yes" once the close of the socket this.ws refers to
                        \* found the attempts used up and none pending, "resumed"
                        \* once connect() ran after that, "no" before
    frame,              \* the frame the last step handled, NoFrame if it handled none
    removed,            \* the stream keys whose entry an unsubscribe call removed
                        \* and that were not subscribed again
    replaced,           \* the pairs << stream key, handler >> of the handlers that a
                        \* later subscription of the same key replaced
    calls,              \* the callbacks the last step called, in order, each with
                        \* its argument
    outcome,            \* how handleMessage ended in the last step: "dispatched",
                        \* "ignored", "caught" (console.error), "thrown" if an
                        \* exception left it; "none" if it did not run
    failures,           \* sockets that closed without the manager having called
                        \* close() on them, since the last open event (counted up
                        \* to maxReconnectAttempts)
    unsubscribers,      \* the functions onConnectionChange returned and their
                        \* callers hold: a bag of [handler, live, called], live
                        \* until the function is called or disconnect() clears the
                        \* observers
    wsInstance,         \* the module variable wsInstance: 0 for null, else the
                        \* number of the instance it refers to
    got,                \* what the last getWebSocketInstance() returned, 0 before
    hooks,              \* the mounted useWebSocket() calls (object form), by component
    flushing,           \* the component whose effect is being flushed: its cleanup
                        \* ran and its body runs next; "none" otherwise
    cleaned,            \* the callbacks of the hook effects whose cleanup has run
    sent,               \* the readyState of the socket on which the last step
                        \* called send() ("null" when this.ws was null), "none" if
                        \* it called none
    returned            \* the last calls of the exported helper functions, oldest
                        \* first: each with its arguments, its result and the
                        \* identity of the object it returned

vars == << ws, detached, reconnectAttempts, pingInterval, streams, klineHandlers,
           tradeHandlers, connectionHandlers, timers, activeIntervals,
           pendingClose, announced, invoked, requested, afterDisconnect,
           sinceOpen, exhausted, frame, removed, replaced, calls, outcome, failures,
           unsubscribers, wsInstance, got, hooks, flushing, cleaned, sent, returned >>

\* the state of the module and of the components using it
callerVars == << wsInstance, got, hooks, flushing, cleaned >>

\* the components using the manager
hookVars == << hooks, flushing, cleaned >>

(***************************************************************************)
(* Strings.                                                                *)
(***************************************************************************)
LowerChar(c) ==
    CASE c = "B" -> "b"
      [] c = "T" -> "t"
      [] c = "E" -> "e"
      [] OTHER -> c

\* a conversion that leaves the letters as they are
toLowerCaseAsIs(sym) == sym

\* String.prototype.toLowerCase, character by character
toLowerCase(sym) == [ i \in DOMAIN sym |-> LowerChar(sym[i]) ]

RECURSIVE Str(_)
\* the string a sequence of characters spells
Str(cs) == IF cs = << >> THEN "" ELSE Head(cs) \o Str(Tail(cs))

RECURSIVE join(_, _)
\* Array.prototype.join
join(xs, sep) ==
    IF xs = << >> THEN ""
    ELSE IF Len(xs) = 1 THEN xs[1]
    ELSE xs[1] \o sep \o join(Tail(xs), sep)

getKlineStreamName(symbol, interval) ==
    Str(toLowerCase(symbol)) \o "@kline_" \o interval

getTradeStreamName(symbol) ==
    Str(toLowerCase(symbol)) \o "@trade"

\* a helper that builds the combined form for every list
createStreamUrlCombined(strs) ==
    WS_BASE_URL \o "/stream?streams=" \o join(strs, "/")

createStreamUrl(strs) ==
    IF Len(strs) = 1
    THEN WS_BASE_URL \o "/" \o strs[1]
    ELSE WS_BASE_URL \o "/stream?streams=" \o join(strs, "/")

RECURSIVE Pow2(_)
\* Math.pow(2, n) for n >= 0
Pow2(n) == IF n = 0 THEN 1 ELSE 2 * Pow2(n - 1)

(***************************************************************************)
(* Maps (JavaScript Map): functions on the set of their keys.              *)
(***************************************************************************)
EmptyMap == << >>

\* a set that keeps the entry a key already has
MapSetKeepsFirst(m, key, v) ==
    [ k \in (DOMAIN m) \cup {key} |-> IF k \in DOMAIN m THEN m[k] ELSE v ]

MapSet(m, key, v) ==
    [ k \in (DOMAIN m) \cup {key} |-> IF k = key THEN v ELSE m[k] ]

\* a delete that removes nothing
MapDeleteKeeps(m, key) == m

MapDelete(m, key) == [ k \in (DOMAIN m) \ {key} |-> m[k] ]

MapValues(m) == { m[k] : k \in DOMAIN m }

\* the replaced pairs once m.set(key, handler) has run
Replacing(pairs, m, key, handler) ==
    (pairs \cup (IF key \in DOMAIN m /\ m[key] # handler THEN { << key, m[key] >> } ELSE {}))
        \ { << key, handler >> }

SeqValues(q) == { q[i] : i \in DOMAIN q }

(***************************************************************************)
(* The stream lists connect() is called with.                              *)
(***************************************************************************)
KlineKey == getKlineStreamName(<<"B", "T">>, "1m")
TradeKey == getTradeStreamName(<<"B", "T">>)

StreamLists == { << >>, << TradeKey >>, << KlineKey, TradeKey >> }

\* the list the useWebSocket hook calls connect() with
HookStreamLists == { << KlineKey, TradeKey >> }

(***************************************************************************)
(* Sockets.  A socket the manager still refers to is the record ws; the    *)
(* others are told apart by their readyState only.                         *)
(***************************************************************************)
\* origin tells who created the socket: "connect" (connect()), "reconnect" (a
\* reconnect timeout), "stale" (a reconnect timeout scheduled before a disconnect())
NoSocket == [ state |-> "null", url |-> "", origin |-> "none" ]

LiveStates == { "CONNECTING", "OPEN", "CLOSING" }

NoneDetached == [ st \in LiveStates |-> 0 ]

DetachedCount == detached["CONNECTING"] + detached["OPEN"] + detached["CLOSING"]

\* the sockets whose handlers can still run
LiveCount == (IF ws.state \in LiveStates THEN 1 ELSE 0) + DetachedCount

\* the readyState after WebSocket.close()
AfterClose(st) == IF st \in { "CONNECTING", "OPEN" } THEN "CLOSING" ELSE st

\* the bag detached with one more socket in readyState st (none if it is closed)
Detach(bag, st) ==
    IF st \in LiveStates THEN [ bag EXCEPT ![st] = @ + 1 ] ELSE bag

\* the function onConnectionChange(handler) returns; called counts the calls
\* its holder has made of it
Unsubscriber(handler) == [ handler |-> handler, live |-> TRUE, called |-> 0 ]

\* connectionHandlers.clear(): no registration is left for a returned function
Cleared(bag) ==
    LET fs == BagToSet(bag)
        deads == { [ f EXCEPT !.live = FALSE ] : f \in fs }
    IN [ d \in deads |->
           (IF d \in fs THEN bag[d] ELSE 0)
           + (IF [ d EXCEPT !.live = TRUE ] \in fs THEN bag[[ d EXCEPT !.live = TRUE ]] ELSE 0) ]

(***************************************************************************)
(* Frames.  A frame is the text of a message event: json tells what         *)
(* JSON.parse makes of it ("invalid" when it throws), envelope whether the  *)
(* object is {stream, data} around the payload, and e, s, k, p are the      *)
(* members of the payload (e "missing" and k << >> when absent).            *)
(***************************************************************************)
NoFrame == [ json |-> "none", envelope |-> FALSE, e |-> "none", s |-> << >>,
             k |-> << >>, p |-> << >> ]

\* the k member of a kline frame that opened at t ms
KPayload(t, interval) ==
    [ t |-> t, i |-> interval, o |-> << "1", ".", "5" >>, h |-> << "2", ".", "2", "5" >>,
      l |-> << "0", ".", "5" >>, c |-> << "2" >>, v |-> << "1", "0" >> ]

KlineFrame(symbol, interval, t, envelope) ==
    [ json |-> "object", envelope |-> envelope, e |-> "kline", s |-> symbol,
      k |-> << KPayload(t, interval) >>, p |-> << >> ]

TradeFrame(symbol, price, envelope) ==
    [ json |-> "object", envelope |-> envelope, e |-> "trade", s |-> symbol,
      k |-> << >>, p |-> price ]

Digits == { "0", "1", "2", "3", "4", "5", "6", "7", "8", "9" }

Digit(c) ==
    CASE c = "0" -> 0 [] c = "1" -> 1 [] c = "2" -> 2 [] c = "3" -> 3 [] c = "4" -> 4
      [] c = "5" -> 5 [] c = "6" -> 6 [] c = "7" -> 7 [] c = "8" -> 8 [] c = "9" -> 9

\* what Number.parseFloat gives when the text has no leading number
NaN == [ num |-> 0, den |-> 0 ]

RECURSIVE ScanFloat(_, _, _, _)
\* the decimal number num / den that the longest numeric prefix of cs spells
ScanFloat(cs, num, den, seenPoint) ==
    IF cs = << >> THEN [ num |-> num, den |-> den ]
    ELSE IF Head(cs) \in Digits
    THEN ScanFloat(Tail(cs), num * 10 + Digit(Head(cs)),
                   IF seenPoint THEN den * 10 ELSE den, seenPoint)
    ELSE IF Head(cs) = "." /\ ~ seenPoint
    THEN ScanFloat(Tail(cs), num, den, TRUE)
    ELSE [ num |-> num, den |-> den ]

\* Number.parseFloat of an unsigned decimal text
parseFloat(cs) ==
    IF cs = << >> \/ Head(cs) \notin Digits THEN NaN ELSE ScanFloat(cs, 0, 1, FALSE)

\* a conversion that leaves the open time in milliseconds
parseKlineDataMs(data) ==
    [ time   |-> data.k[1].t,
      open   |-> parseFloat(data.k[1].o),
      high   |-> parseFloat(data.k[1].h),
      low    |-> parseFloat(data.k[1].l),
      close  |-> parseFloat(data.k[1].c),
      volume |-> parseFloat(data.k[1].v) ]

\* a conversion that rounds the open time to the nearest second
parseKlineDataRounds(data) ==
    [ time   |-> (data.k[1].t + 500) \div 1000,
      open   |-> parseFloat(data.k[1].o),
      high   |-> parseFloat(data.k[1].h),
      low    |-> parseFloat(data.k[1].l),
      close  |-> parseFloat(data.k[1].c),
      volume |-> parseFloat(data.k[1].v) ]

parseKlineData(data) ==
    [ time   |-> data.k[1].t \div 1000,
      open   |-> parseFloat(data.k[1].o),
      high   |-> parseFloat(data.k[1].h),
      low    |-> parseFloat(data.k[1].l),
      close  |-> parseFloat(data.k[1].c),
      volume |-> parseFloat(data.k[1].v) ]

(***************************************************************************)
(* Components that call useWebSocket() with the object form.                *)
(***************************************************************************)
Components == { "c1", "c2" }

\* the symbols the components are rendered with; the empty one makes the
\* effect return at once
HookSymbols == { << "B", "T" >>, << "E" >>, << >> }

\* symbol and interval are the options of the last render, run counts the
\* effect bodies that ran; active tells that the last one returned a cleanup
\* function, wsi the instance it got
Unmounted ==
    [ mounted |-> FALSE, symbol |-> << >>, interval |-> "", run |-> 0,
      active |-> FALSE, wsi |-> 0 ]

RunNames == << "1", "2", "3", "4" >>

\* the closures an effect body creates in its run n for component c
KHandler(c, n) == "kHandler." \o c \o "." \o RunNames[n]
THandler(c, n) == "tHandler." \o c \o "." \o RunNames[n]
Setter(c, n) == "setConnectionState." \o c \o "." \o RunNames[n]

HookCallbacks(c, n) == { KHandler(c, n), THandler(c, n), Setter(c, n) }

\* a stream list built without lower-casing the symbol
HookStreamsAsGiven(symbol, interval) ==
    << Str(symbol) \o "@kline_" \o interval, Str(symbol) \o "@trade" >>

\* the stream list the effect body builds inline
HookStreams(symbol, interval) ==
    << Str(toLowerCase(symbol)) \o "@kline_" \o interval,
       Str(toLowerCase(symbol)) \o "@trade" >>

Init ==
    /\ ws = NoSocket
    /\ detached = NoneDetached
    /\ reconnectAttempts = 0
    /\ pingInterval = 0
    /\ streams = << >>
    /\ klineHandlers = EmptyMap
    /\ tradeHandlers = EmptyMap
    /\ connectionHandlers = << >>
    /\ timers = EmptyBag
    /\ activeIntervals = 0
    /\ pendingClose = "none"
    /\ announced = "none"
    /\ invoked = {}
    /\ requested = << >>
    /\ afterDisconnect = FALSE
    /\ sinceOpen = 0
    /\ exhausted = "no"
    /\ frame = NoFrame
    /\ removed = {}
    /\ replaced = {}
    /\ calls = << >>
    /\ outcome = "none"
    /\ failures = 0
    /\ unsubscribers = EmptyBag
    /\ wsInstance = 0
    /\ got = 0
    /\ hooks = [ c \in Components |-> Unmounted ]
    /\ flushing = "none"
    /\ cleaned = {}
    /\ sent = "none"
    /\ returned = << >>

(***************************************************************************)
(* Private methods, as the changes they make.                              *)
(***************************************************************************)
\* a notification that visits the observers last to first
NotifyReversed(st) ==
    /\ announced' = st
    /\ invoked' = SeqValues(connectionHandlers)
    /\ calls' = [ n \in DOMAIN connectionHandlers |->
                     [ fn |-> connectionHandlers[Len(connectionHandlers) + 1 - n],
                       arg |-> [ state |-> st ] ] ]
    /\ frame' = NoFrame
    /\ outcome' = "none"
    /\ sent' = "none"
    /\ UNCHANGED returned

\* notifyConnectionState(state): every registered observer is called with it
NotifyConnectionState(st) ==
    /\ announced' = st
    /\ invoked' = SeqValues(connectionHandlers)
    /\ calls' = [ n \in DOMAIN connectionHandlers |->
                     [ fn |-> connectionHandlers[n], arg |-> [ state |-> st ] ] ]
    /\ frame' = NoFrame
    /\ outcome' = "none"
    /\ sent' = "none"
    /\ UNCHANGED returned

\* the socket createConnection() constructs
NewSocket(strs, origin) ==
    [ state |-> "CONNECTING", url |-> createStreamUrl(strs), origin |-> origin ]

\* the readyState createConnection() leaves the previous socket in: it closes
\* the socket only when it is OPEN
Replaced(st) == IF st = "OPEN" THEN AfterClose(st) ELSE st

\* createConnection(), reading strs for this.streams
CreateConnection(strs, origin) ==
    /\ LiveCount < MaxSockets
    /\ detached' = Detach(detached, Replaced(ws.state))
    /\ ws' = NewSocket(strs, origin)
    /\ NotifyConnectionState("connecting")

\* a delay doubled once too often
BackoffDelayOffByOne(attempts) == reconnectDelay * Pow2(attempts)

\* the delay attemptReconnect() computes once it has incremented the counter
BackoffDelay(attempts) == reconnectDelay * Pow2(attempts - 1)

\* attemptReconnect() gives up when the counter has reached the maximum
GivesUp(attempts) == attempts >= maxReconnectAttempts

\* the counter after a socket's onopen
AfterOpen(attempts) == 0

\* a connect() that keeps the streams stored before
StoredKeepsOld(strs, old) == old

\* what connect(strs) stores in this.streams
Stored(strs, old) == strs

\* the delayed callback of attemptReconnect(): reconnects if streams are stored
TimerReconnects(strs) == Len(strs) > 0

\* stopPing()
StopPing ==
    /\ pingInterval' = 0
    /\ activeIntervals' = activeIntervals - pingInterval

(***************************************************************************)
(* Public methods.                                                         *)
(***************************************************************************)
connect(strs) ==
    /\ pendingClose = "none"
    /\ streams' = Stored(strs, streams)
    /\ CreateConnection(Stored(strs, streams), "connect")
    /\ requested' = << strs >>
    /\ afterDisconnect' = FALSE
    /\ exhausted' = IF exhausted = "no" THEN "no" ELSE "resumed"
    /\ UNCHANGED << reconnectAttempts, pingInterval, klineHandlers, tradeHandlers,
                    connectionHandlers, timers, activeIntervals, pendingClose,
                    sinceOpen, removed, replaced, failures, unsubscribers, callerVars >>

\* every pending reconnect timeout was scheduled before this disconnect()
MarkOld(bag) ==
    LET ts == BagToSet(bag)
        olds == { [ t EXCEPT !.old = TRUE ] : t \in ts }
    IN [ o \in olds |->
           (IF o \in ts THEN bag[o] ELSE 0)
           + (IF [ o EXCEPT !.old = FALSE ] \in ts THEN bag[[ o EXCEPT !.old = FALSE ]] ELSE 0) ]

disconnect ==
    /\ pendingClose = "none"
    /\ StopPing
    /\ klineHandlers' = EmptyMap
    /\ tradeHandlers' = EmptyMap
    /\ connectionHandlers' = << >>
    /\ streams' = << >>
    /\ detached' = Detach(detached, AfterClose(ws.state))
    /\ ws' = NoSocket
    /\ timers' = MarkOld(timers)
    /\ requested' = << >>
    /\ afterDisconnect' = TRUE
    /\ invoked' = {}
    /\ frame' = NoFrame
    /\ calls' = << >>
    /\ outcome' = "none"
    /\ sent' = "none"
    /\ UNCHANGED returned
    /\ unsubscribers' = Cleared(unsubscribers)
    /\ UNCHANGED << reconnectAttempts, pendingClose, announced, sinceOpen, exhausted,
                    removed, replaced, failures, callerVars >>

subscribeKline(symbol, interval, handler) ==
    /\ pendingClose = "none"
    /\ klineHandlers' = MapSet(klineHandlers, getKlineStreamName(symbol, interval), handler)
    /\ removed' = removed \ { getKlineStreamName(symbol, interval) }
    /\ replaced' = Replacing(replaced, klineHandlers, getKlineStreamName(symbol, interval),
                             handler)
    /\ invoked' = {}
    /\ frame' = NoFrame
    /\ calls' = << >>
    /\ outcome' = "none"
    /\ sent' = "none"
    /\ UNCHANGED returned
    /\ UNCHANGED << ws, detached, reconnectAttempts, pingInterval, streams, tradeHandlers,
                    connectionHandlers, timers, activeIntervals, pendingClose,
                    announced, requested, afterDisconnect, sinceOpen, exhausted,
                    failures, unsubscribers, callerVars >>

unsubscribeKline(symbol, interval) ==
    /\ pendingClose = "none"
    /\ klineHandlers' = MapDelete(klineHandlers, getKlineStreamName(symbol, interval))
    /\ removed' = removed \cup { getKlineStreamName(symbol, interval) }
    /\ UNCHANGED replaced
    /\ invoked' = {}
    /\ frame' = NoFrame
    /\ calls' = << >>
    /\ outcome' = "none"
    /\ sent' = "none"
    /\ UNCHANGED returned
    /\ UNCHANGED << ws, detached, reconnectAttempts, pingInterval, streams, tradeHandlers,
                    connectionHandlers, timers, activeIntervals, pendingClose,
                    announced, requested, afterDisconnect, sinceOpen, exhausted,
                    failures, unsubscribers, callerVars >>

subscribeTrade(symbol, handler) ==
    /\ pendingClose = "none"
    /\ tradeHandlers' = MapSet(tradeHandlers, getTradeStreamName(symbol), handler)
    /\ removed' = removed \ { getTradeStreamName(symbol) }
    /\ replaced' = Replacing(replaced, tradeHandlers, getTradeStreamName(symbol), handler)
    /\ invoked' = {}
    /\ frame' = NoFrame
    /\ calls' = << >>
    /\ outcome' = "none"
    /\ sent' = "none"
    /\ UNCHANGED returned
    /\ UNCHANGED << ws, detached, reconnectAttempts, pingInterval, streams, klineHandlers,
                    connectionHandlers, timers, activeIntervals, pendingClose,
                    announced, requested, afterDisconnect, sinceOpen, exhausted,
                    failures, unsubscribers, callerVars >>

\* an unsubscribeTrade that clears the trade registry
unsubscribeTradeClears(symbol) ==
    /\ pendingClose = "none"
    /\ tradeHandlers' = EmptyMap
    /\ removed' = removed \cup { getTradeStreamName(symbol) }
    /\ UNCHANGED replaced
    /\ invoked' = {}
    /\ frame' = NoFrame
    /\ calls' = << >>
    /\ outcome' = "none"
    /\ sent' = "none"
    /\ UNCHANGED returned
    /\ UNCHANGED << ws, detached, reconnectAttempts, pingInterval, streams, klineHandlers,
                    connectionHandlers, timers, activeIntervals, pendingClose,
                    announced, requested, afterDisconnect, sinceOpen, exhausted,
                    failures, unsubscribers, callerVars >>

unsubscribeTrade(symbol) ==
    /\ pendingClose = "none"
    /\ tradeHandlers' = MapDelete(tradeHandlers, getTradeStreamName(symbol))
    /\ removed' = removed \cup { getTradeStreamName(symbol) }
    /\ UNCHANGED replaced
    /\ invoked' = {}
    /\ frame' = NoFrame
    /\ calls' = << >>
    /\ outcome' = "none"
    /\ sent' = "none"
    /\ UNCHANGED returned
    /\ UNCHANGED << ws, detached, reconnectAttempts, pingInterval, streams, klineHandlers,
                    connectionHandlers, timers, activeIntervals, pendingClose,
                    announced, requested, afterDisconnect, sinceOpen, exhausted,
                    failures, unsubscribers, callerVars >>

\* Set.add keeps the first insertion of a value; kept tells whether the caller
\* keeps the function that is returned
onConnectionChange(handler, kept) ==
    /\ pendingClose = "none"
    /\ IF kept
       THEN /\ BagCardinality(unsubscribers) < MaxUnsubscribers
            /\ unsubscribers' = unsubscribers (+) SetToBag({ Unsubscriber(handler) })
       ELSE UNCHANGED unsubscribers
    /\ connectionHandlers' = IF handler \in SeqValues(connectionHandlers)
                             THEN connectionHandlers
                             ELSE Append(connectionHandlers, handler)
    /\ invoked' = {}
    /\ frame' = NoFrame
    /\ calls' = << >>
    /\ outcome' = "none"
    /\ sent' = "none"
    /\ UNCHANGED returned
    /\ UNCHANGED << ws, detached, reconnectAttempts, pingInterval, streams, klineHandlers,
                    tradeHandlers, timers, activeIntervals, pendingClose,
                    announced, requested, afterDisconnect, sinceOpen, exhausted, removed,
                    replaced, failures, callerVars >>

\* a delete that removes nothing
SetDeleteKeeps(q, v) == q

\* Set.delete
SetDelete(q, v) == SelectSeq(q, LAMBDA x : x # v)

\* a call of a function f that onConnectionChange returned; its holder drops
\* it after the second call
unsubscribe(f) ==
    /\ pendingClose = "none"
    /\ BagIn(f, unsubscribers)
    /\ connectionHandlers' = SetDelete(connectionHandlers, f.handler)
    /\ unsubscribers' =
           IF f.called = 0
           THEN (unsubscribers (-) SetToBag({ f }))
                    (+) SetToBag({ [ f EXCEPT !.live = FALSE, !.called = 1 ] })
           ELSE unsubscribers (-) SetToBag({ f })
    /\ invoked' = {}
    /\ frame' = NoFrame
    /\ calls' = << >>
    /\ outcome' = "none"
    /\ sent' = "none"
    /\ UNCHANGED returned
    /\ UNCHANGED << ws, detached, reconnectAttempts, pingInterval, streams, klineHandlers,
                    tradeHandlers, timers, activeIntervals, pendingClose,
                    announced, requested, afterDisconnect, sinceOpen, exhausted, removed,
                    replaced, failures, callerVars >>

\* getState()
getState ==
    IF ws = NoSocket THEN "disconnected"
    ELSE CASE ws.state = "CONNECTING" -> "connecting"
           [] ws.state = "OPEN" -> "connected"
           [] OTHER -> "disconnected"

(***************************************************************************)
(* The singleton.  The variables of the manager are those of the instance  *)
(* wsInstance refers to, or referred to last.  An instance that was        *)
(* destroyed is out of reach of getWebSocketInstance(): its registries     *)
(* and streams are empty, so the events of its sockets and timers call     *)
(* nothing and create nothing, and they are not followed once a new        *)
(* instance exists.                                                        *)
(***************************************************************************)
\* an instance number that was given before
ReusedInstance(last) == IF last = 0 THEN 1 ELSE last

\* the number of the instance new BinanceWebSocket() constructs
NewInstance(last) == last + 1

\* new BinanceWebSocket(): the field initialisers
Constructed ==
    /\ ws' = NoSocket
    /\ detached' = NoneDetached
    /\ reconnectAttempts' = 0
    /\ pingInterval' = 0
    /\ streams' = << >>
    /\ klineHandlers' = EmptyMap
    /\ tradeHandlers' = EmptyMap
    /\ connectionHandlers' = << >>
    /\ timers' = EmptyBag
    /\ activeIntervals' = 0
    /\ announced' = "none"
    /\ requested' = << >>
    /\ afterDisconnect' = FALSE
    /\ sinceOpen' = 0
    /\ exhausted' = "no"
    /\ removed' = {}
    /\ replaced' = {}
    /\ failures' = 0
    /\ unsubscribers' = EmptyBag

getWebSocketInstance ==
    /\ pendingClose = "none"
    /\ IF wsInstance = 0
       THEN /\ got < MaxInstances
            /\ wsInstance' = NewInstance(got)
            /\ Constructed
       ELSE UNCHANGED << wsInstance, ws, detached, reconnectAttempts, pingInterval, streams,
                         klineHandlers, tradeHandlers, connectionHandlers, timers,
                         activeIntervals, announced, requested, afterDisconnect,
                         sinceOpen, exhausted, removed, replaced, failures,
                         unsubscribers >>
    /\ got' = wsInstance'
    /\ invoked' = {}
    /\ frame' = NoFrame
    /\ calls' = << >>
    /\ outcome' = "none"
    /\ sent' = "none"
    /\ UNCHANGED returned
    /\ UNCHANGED << pendingClose, hookVars >>

destroyWebSocketInstance ==
    /\ pendingClose = "none"
    /\ IF wsInstance # 0
       THEN \* wsInstance.disconnect()
            /\ StopPing
            /\ klineHandlers' = EmptyMap
            /\ tradeHandlers' = EmptyMap
            /\ connectionHandlers' = << >>
            /\ streams' = << >>
            /\ detached' = Detach(detached, AfterClose(ws.state))
            /\ ws' = NoSocket
            /\ timers' = MarkOld(timers)
            /\ requested' = << >>
            /\ afterDisconnect' = TRUE
            /\ unsubscribers' = Cleared(unsubscribers)
            /\ wsInstance' = 0
       ELSE UNCHANGED << wsInstance, ws, detached, pingInterval, activeIntervals, streams,
                         klineHandlers, tradeHandlers, connectionHandlers, timers,
                         requested, afterDisconnect, unsubscribers >>
    /\ invoked' = {}
    /\ frame' = NoFrame
    /\ calls' = << >>
    /\ outcome' = "none"
    /\ sent' = "none"
    /\ UNCHANGED returned
    /\ UNCHANGED << reconnectAttempts, pendingClose, announced, sinceOpen, exhausted,
                    removed, replaced, failures, got, hookVars >>

(***************************************************************************)
(* useWebSocket(options), object form.  React runs the cleanup of the last *)
(* effect and then the new effect body in one flush, after the render: the *)
(* two are steps with nothing in between.  The components get their        *)
(* instance from getWebSocketInstance(); where they are followed no        *)
(* instance is destroyed, so the first body finds the fields of a new      *)
(* instance.                                                               *)
(***************************************************************************)
RECURSIVE EffectRuns(_)
\* the effect bodies the components cs have run
EffectRuns(cs) ==
    IF cs = {} THEN 0
    ELSE LET c == CHOOSE x \in cs : TRUE
         IN hooks[c].run + EffectRuns(cs \ { c })

\* the cleanup function of the last effect of h, on the registries of the
\* instance it closed over
CleanupKline(h, c) ==
    IF h.active /\ h.wsi = wsInstance
    THEN MapDelete(klineHandlers, getKlineStreamName(h.symbol, h.interval))
    ELSE klineHandlers

CleanupTrade(h, c) ==
    IF h.active /\ h.wsi = wsInstance
    THEN MapDelete(tradeHandlers, getTradeStreamName(h.symbol))
    ELSE tradeHandlers

CleanupObservers(h, c) ==
    IF h.active /\ h.wsi = wsInstance
    THEN SetDelete(connectionHandlers, Setter(c, h.run))
    ELSE connectionHandlers

CleanupRemoved(h) ==
    IF h.active /\ h.wsi = wsInstance
    THEN removed \cup { getKlineStreamName(h.symbol, h.interval),
                         getTradeStreamName(h.symbol) }
    ELSE removed

\* the cleanup of the last effect of component c
HookCleanup(c) ==
    /\ klineHandlers' = CleanupKline(hooks[c], c)
    /\ tradeHandlers' = CleanupTrade(hooks[c], c)
    /\ connectionHandlers' = CleanupObservers(hooks[c], c)
    /\ removed' = CleanupRemoved(hooks[c])
    /\ cleaned' = cleaned \cup (IF hooks[c].active THEN HookCallbacks(c, hooks[c].run) ELSE {})
    /\ invoked' = {}
    /\ frame' = NoFrame
    /\ calls' = << >>
    /\ outcome' = "none"
    /\ sent' = "none"
    /\ UNCHANGED returned
    /\ UNCHANGED << ws, detached, reconnectAttempts, pingInterval, streams, timers,
                    activeIntervals, pendingClose, announced, requested,
                    afterDisconnect, sinceOpen, exhausted, replaced, failures,
                    unsubscribers, wsInstance, got >>

\* component c is rendered with new options (or for the first time): the
\* cleanup of its last effect runs, its new effect body is next
hookRender(c, symbol, interval) ==
    /\ pendingClose = "none"
    /\ flushing = "none"
    /\ EffectRuns(Components) < MaxEffects
    /\ LiveCount < MaxSockets
    /\ HookCleanup(c)
    /\ hooks' = [ hooks EXCEPT ![c] = [ @ EXCEPT !.mounted = TRUE, !.symbol = symbol,
                                                  !.interval = interval, !.active = FALSE ] ]
    /\ flushing' = c

\* component c is unmounted: the cleanup of its last effect runs
hookUnmount(c) ==
    /\ pendingClose = "none"
    /\ flushing = "none"
    /\ hooks[c].mounted
    /\ HookCleanup(c)
    /\ hooks' = [ hooks EXCEPT ![c] = [ @ EXCEPT !.mounted = FALSE, !.active = FALSE ] ]
    /\ UNCHANGED flushing

\* the effect body of component c, with the options of its last render
hookEffect(c) ==
    /\ flushing = c
    /\ flushing' = "none"
    /\ UNCHANGED << cleaned, reconnectAttempts, pingInterval, timers, activeIntervals,
                    pendingClose, sinceOpen, failures, unsubscribers >>
    /\ IF hooks[c].symbol = << >>
       THEN \* if (!symbol) return
            /\ hooks' = [ hooks EXCEPT ![c] = [ @ EXCEPT !.run = @ + 1 ] ]
            /\ invoked' = {}
            /\ frame' = NoFrame
            /\ calls' = << >>
            /\ outcome' = "none"
            /\ sent' = "none"
            /\ UNCHANGED returned
            /\ UNCHANGED << ws, detached, streams, klineHandlers, tradeHandlers,
                            connectionHandlers, announced, requested, afterDisconnect,
                            exhausted, removed, replaced, wsInstance, got >>
       ELSE LET h == hooks[c]
                n == h.run + 1
                klineKey == getKlineStreamName(h.symbol, h.interval)
                tradeKey == getTradeStreamName(h.symbol)
                strs == HookStreams(h.symbol, h.interval)
            IN  \* getWebSocketInstance()
                /\ wsInstance' = IF wsInstance = 0 THEN NewInstance(got) ELSE wsInstance
                /\ got' = wsInstance'
                \* subscribeKline, subscribeTrade
                /\ klineHandlers' = MapSet(klineHandlers, klineKey, KHandler(c, n))
                /\ tradeHandlers' = MapSet(tradeHandlers, tradeKey, THandler(c, n))
                /\ removed' = removed \ { klineKey, tradeKey }
                /\ replaced' = Replacing(Replacing(replaced, klineHandlers, klineKey,
                                                   KHandler(c, n)),
                                         tradeHandlers, tradeKey, THandler(c, n))
                \* connect(streams)
                /\ streams' = Stored(strs, streams)
                /\ CreateConnection(Stored(strs, streams), "connect")
                /\ requested' = << strs >>
                /\ afterDisconnect' = FALSE
                /\ exhausted' = IF exhausted = "no" THEN "no" ELSE "resumed"
                \* onConnectionChange
                /\ connectionHandlers' = Append(connectionHandlers, Setter(c, n))
                /\ hooks' = [ hooks EXCEPT ![c] = [ @ EXCEPT !.run = n, !.active = TRUE,
                                                              !.wsi = wsInstance' ] ]

(***************************************************************************)
(* Browser callbacks.  ref names the socket the event belongs to: "ws" for *)
(* the socket this.ws refers to, "detached" for one of the others.         *)
(***************************************************************************)
SocketRefs == { "ws", "detached" }

\* the sockets of ref in readyState st
Has(ref, st) == IF ref = "ws" THEN ws.state = st ELSE detached[st] > 0

\* the socket of ref in readyState from moves to readyState to
Move(ref, from, to) ==
    IF ref = "ws"
    THEN /\ ws' = [ ws EXCEPT !.state = to ]
         /\ UNCHANGED detached
    ELSE /\ detached' = Detach([ detached EXCEPT ![from] = @ - 1 ], to)
         /\ UNCHANGED ws

\* ws.onopen of a socket
onopen(ref) ==
    /\ pendingClose = "none"
    /\ Has(ref, "CONNECTING")
    /\ activeIntervals < MaxIntervals
    /\ Move(ref, "CONNECTING", "OPEN")
    /\ reconnectAttempts' = AfterOpen(reconnectAttempts)
    /\ NotifyConnectionState("connected")
    \* startPing(): the previous interval id is overwritten, not cleared
    /\ pingInterval' = 1
    /\ activeIntervals' = activeIntervals + 1
    /\ sinceOpen' = 0
    /\ failures' = 0
    /\ UNCHANGED << streams, klineHandlers, tradeHandlers, connectionHandlers,
                    timers, pendingClose, requested, afterDisconnect, exhausted,
                    removed, replaced, unsubscribers, callerVars >>

\* the well-formed frames the exchange sends on the raw stream endpoint, for
\* klines of the intervals ivs
FramesFor(ivs) ==
    { KlineFrame(sym, iv, OpenTime, FALSE) : sym \in FrameSymbols, iv \in ivs }
      \cup { TradeFrame(sym, Price, FALSE) : sym \in FrameSymbols }

Frames == FramesFor(Intervals)

\* the frames of the combined endpoint: fs wrapped in {stream, data}
Wrapped(fs) == { [ f EXCEPT !.envelope = TRUE ] : f \in fs }

\* frames that are not a kline or a trade event: text that is not JSON, JSON
\* that is not an object, a missing or unknown e, a kline event without k
Malformed(fs) ==
    { [ NoFrame EXCEPT !.json = j ] : j \in { "invalid", "null", "number" } }
      \cup { [ f EXCEPT !.e = e ] : f \in fs, e \in { "missing", "depthUpdate" } }
      \cup { [ f EXCEPT !.k = << >> ] : f \in { g \in fs : g.e = "kline" } }

\* well-formed frames, bare and wrapped
WellFormedFrames == FramesFor(KlineIntervals) \cup Wrapped(FramesFor(KlineIntervals))

RawFrames == WellFormedFrames \cup Malformed(WellFormedFrames)

\* the payload object of a frame
Payload(f) == [ e |-> f.e, s |-> f.s, k |-> f.k, p |-> f.p ]

\* JSON.parse(rawData) of a frame that is an object
Parsed(f) == IF f.envelope THEN [ stream |-> "", data |-> Payload(f) ] ELSE Payload(f)

\* parsed.data || parsed
Unwrap(parsed) == IF "data" \in DOMAIN parsed THEN parsed.data ELSE parsed

\* the statements of the try block that throw: JSON.parse on text that is not
\* JSON, parsed.data on null, klineData.k.i on a kline event without k
Throws(f) ==
    \/ f.json = "invalid"
    \/ f.json = "null"
    \/ f.json = "object" /\ Unwrap(Parsed(f)).e = "kline" /\ Unwrap(Parsed(f)).k = << >>

\* a handleMessage without its catch clause
HandleThrowNoCatch == "thrown"

\* how handleMessage ends when a statement of its try block throws
HandleThrow == "caught"

\* handleMessage(rawData): the calls it makes and how it ends
handleMessage(f) ==
    IF Throws(f) THEN [ calls |-> << >>, outcome |-> HandleThrow ]
    ELSE IF f.json # "object" THEN [ calls |-> << >>, outcome |-> "ignored" ]
    ELSE LET data == Unwrap(Parsed(f))
         IN IF data.e = "kline"
            THEN LET streamKey == getKlineStreamName(data.s, data.k[1].i)
                 IN IF streamKey \in DOMAIN klineHandlers
                    THEN [ calls |-> << [ fn |-> klineHandlers[streamKey],
                                          arg |-> parseKlineData(data) ] >>,
                           outcome |-> "dispatched" ]
                    ELSE [ calls |-> << >>, outcome |-> "ignored" ]
            ELSE IF data.e = "trade"
            THEN LET streamKey == getTradeStreamName(data.s)
                 IN IF streamKey \in DOMAIN tradeHandlers
                    THEN [ calls |-> << [ fn |-> tradeHandlers[streamKey], arg |-> data ] >>,
                           outcome |-> "dispatched" ]
                    ELSE [ calls |-> << >>, outcome |-> "ignored" ]
            ELSE [ calls |-> << >>, outcome |-> "ignored" ]

\* the handlers handleMessage calls for a frame
Dispatch(f) == { c.fn : c \in SeqValues(handleMessage(f).calls) }

\* ws.onmessage of a socket: message events are delivered only while it is OPEN
onmessage(ref, f) ==
    /\ pendingClose = "none"
    /\ Has(ref, "OPEN")
    /\ invoked' = Dispatch(f)
    /\ calls' = handleMessage(f).calls
    /\ outcome' = handleMessage(f).outcome
    /\ sent' = "none"
    /\ UNCHANGED returned
    /\ frame' = f
    /\ UNCHANGED << ws, detached, reconnectAttempts, pingInterval, streams, klineHandlers,
                    tradeHandlers, connectionHandlers, timers, activeIntervals,
                    pendingClose, announced, requested, afterDisconnect, sinceOpen,
                    exhausted, removed, replaced, failures, unsubscribers, callerVars >>

\* an onerror that stops the keepalive as well
onerrorStopsPing(ref, st) ==
    /\ pendingClose = "none"
    /\ Has(ref, st)
    /\ GivesUp(reconnectAttempts) \/ BagCardinality(timers) < MaxTimers
    /\ Move(ref, st, "CLOSED")
    /\ NotifyConnectionState("error")
    /\ StopPing
    /\ pendingClose' = ref
    /\ UNCHANGED << reconnectAttempts, streams, klineHandlers,
                    tradeHandlers, connectionHandlers, timers,
                    requested, afterDisconnect, sinceOpen, exhausted, removed,
                    replaced, failures, unsubscribers, callerVars >>

\* ws.onerror of a socket in readyState st when its connection failed: readyState
\* is CLOSED already and the close event follows in the same task
onerror(ref, st) ==
    /\ pendingClose = "none"
    /\ Has(ref, st)
    \* the close event that follows has room for its timeout
    /\ GivesUp(reconnectAttempts) \/ BagCardinality(timers) < MaxTimers
    /\ Move(ref, st, "CLOSED")
    /\ NotifyConnectionState("error")
    /\ pendingClose' = ref
    /\ UNCHANGED << reconnectAttempts, pingInterval, streams, klineHandlers,
                    tradeHandlers, connectionHandlers, timers, activeIntervals,
                    requested, afterDisconnect, sinceOpen, exhausted, removed,
                    replaced, failures, unsubscribers, callerVars >>

\* attemptReconnect(), called by onclose of the socket of ref
AttemptReconnect(ref) ==
    IF GivesUp(reconnectAttempts)
    THEN /\ exhausted' = IF ref = "ws" /\ timers = EmptyBag THEN "yes" ELSE exhausted
         /\ UNCHANGED << reconnectAttempts, timers, sinceOpen >>
    ELSE /\ reconnectAttempts' = reconnectAttempts + 1
         /\ UNCHANGED exhausted
         /\ timers' = timers (+) SetToBag({ [ delay |-> BackoffDelay(reconnectAttempts + 1),
                                              old |-> FALSE ] })
         /\ sinceOpen' = sinceOpen + 1

\* the body of ws.onclose of the socket of ref; failed tells whether the socket
\* closed without the manager having called close() on it
OnCloseBody(ref, failed) ==
    /\ GivesUp(reconnectAttempts) \/ BagCardinality(timers) < MaxTimers
    /\ pendingClose' = "none"
    /\ NotifyConnectionState("disconnected")
    /\ StopPing
    /\ AttemptReconnect(ref)
    /\ failures' = IF failed /\ failures < maxReconnectAttempts
                   THEN failures + 1
                   ELSE failures
    /\ UNCHANGED << streams, klineHandlers, tradeHandlers, connectionHandlers,
                    requested, afterDisconnect, removed, replaced, unsubscribers,
                    callerVars >>

\* ws.onclose of a socket after its error event
oncloseAfterError ==
    /\ pendingClose # "none"
    /\ UNCHANGED << ws, detached >>
    /\ OnCloseBody(pendingClose, TRUE)

\* ws.onclose of a socket in readyState st that closed cleanly
onclose(ref, st) ==
    /\ pendingClose = "none"
    /\ st \in { "OPEN", "CLOSING" }
    /\ Has(ref, st)
    /\ Move(ref, st, "CLOSED")
    /\ OnCloseBody(ref, st # "CLOSING")

\* the setTimeout callback of attemptReconnect(), for the pending timeout t
reconnectTimer(t) ==
    /\ pendingClose = "none"
    /\ BagIn(t, timers)
    /\ timers' = timers (-) SetToBag({t})
    /\ IF TimerReconnects(streams)
       THEN CreateConnection(streams, IF t.old THEN "stale" ELSE "reconnect")
       ELSE /\ invoked' = {}
            /\ frame' = NoFrame
            /\ calls' = << >>
            /\ outcome' = "none"
            /\ sent' = "none"
            /\ UNCHANGED returned
            /\ UNCHANGED << ws, detached, announced >>
    /\ UNCHANGED << reconnectAttempts, pingInterval, streams, klineHandlers,
                    tradeHandlers, connectionHandlers, activeIntervals, pendingClose,
                    requested, afterDisconnect, sinceOpen, exhausted, removed,
                    replaced, failures, unsubscribers, callerVars >>

\* a keepalive that sends whatever the state of the socket
PingSendsAlways(st) == TRUE

\* the test of the keepalive callback: this.ws?.readyState === WebSocket.OPEN
PingSends(st) == st = "OPEN"

\* the setInterval callback of startPing(), for any interval not cleared yet:
\* each of them reads this.ws when it fires
pingTimer ==
    /\ pendingClose = "none"
    /\ activeIntervals > 0
    /\ sent' = IF PingSends(ws.state) THEN ws.state ELSE "none"
    /\ invoked' = {}
    /\ frame' = NoFrame
    /\ calls' = << >>
    /\ outcome' = "none"
    /\ UNCHANGED << ws, detached, reconnectAttempts, pingInterval, streams, klineHandlers,
                    tradeHandlers, connectionHandlers, timers, activeIntervals,
                    pendingClose, announced, requested, afterDisconnect, sinceOpen,
                    exhausted, removed, replaced, failures, unsubscribers, callerVars,
                    returned >>

(***************************************************************************)
(* The exported helper functions, called on their own.  returned keeps the  *)
(* last two calls.  A string is a primitive value and has no identity      *)
(* (obj 0); an object literal is a new object each time it is evaluated.    *)
(***************************************************************************)
SymbolChars == { "B", "b", "T" }

RECURSIVE SymbolsOfLen(_)
\* the symbols of n characters
SymbolsOfLen(n) ==
    IF n = 0 THEN { << >> }
    ELSE { Append(sym, c) : sym \in SymbolsOfLen(n - 1), c \in SymbolChars }

\* the symbols the helpers are called with, in every mix of upper and lower case
CaseSymbols == UNION { SymbolsOfLen(n) : n \in 1 .. MaxSymbolLen }

\* the interval they are called with
HelperIntervals == { "5m" }

UrlKeys == { "bt@kline_1m", "bt@trade" }

RECURSIVE ListsOfLen(_)
\* the lists of n stream keys
ListsOfLen(n) ==
    IF n = 0 THEN { << >> }
    ELSE { Append(l, k) : l \in ListsOfLen(n - 1), k \in UrlKeys }

\* the lists createStreamUrl is called with: keys repeated and in any order
KeyLists == UNION { ListsOfLen(n) : n \in 0 .. MaxKeys }

\* open times in ms: on, just before and just after a whole second
OpenTimes == { 0, 1, 999, 1000, 1001, 1999, 60000, 1700999 }

\* the kline events parseKlineData is called with
KlineEvents == { Unwrap(Parsed(KlineFrame(<< "B", "T" >>, "1m", t, FALSE))) : t \in OpenTimes }

\* the identity of the object an object literal creates: none of those kept
NewObject == CHOOSE n \in 1 .. 3 : \A i \in DOMAIN returned : returned[i].obj # n

\* the variables of the manager, its sockets and its callers
managerVars ==
    << ws, detached, reconnectAttempts, pingInterval, streams, klineHandlers,
       tradeHandlers, connectionHandlers, timers, activeIntervals, pendingClose,
       announced, invoked, requested, afterDisconnect, sinceOpen, exhausted, frame,
       removed, replaced, calls, outcome, failures, unsubscribers, callerVars, sent >>

\* a helper fn was called with args and returned result, the object obj
Returns(fn, args, result, obj) ==
    /\ returned' = (IF Len(returned) < 2 THEN returned ELSE Tail(returned))
                        \o << [ fn |-> fn, args |-> args, result |-> result, obj |-> obj ] >>
    /\ UNCHANGED managerVars

callGetKlineStreamName(symbol, interval) ==
    Returns("getKlineStreamName", << symbol, interval >>,
            getKlineStreamName(symbol, interval), 0)

callGetTradeStreamName(symbol) ==
    Returns("getTradeStreamName", << symbol >>, getTradeStreamName(symbol), 0)

\* the stream list an effect body of useWebSocket builds for its options
hookStreams(symbol, interval) ==
    Returns("useWebSocket.streams", << symbol, interval >>, HookStreams(symbol, interval), 0)

callCreateStreamUrl(strs) ==
    Returns("createStreamUrl", << strs >>, createStreamUrl(strs), 0)

callParseKlineData(data) ==
    Returns("parseKlineData", << data >>, parseKlineData(data), NewObject)

(***************************************************************************)
(* Specifications.                                                         *)
(***************************************************************************)
Delays == { reconnectDelay * Pow2(k) : k \in 0 .. maxReconnectAttempts - 1 }

Timers == [ delay : Delays, old : BOOLEAN ]

\* the connection: methods and callbacks that create, open and close sockets
NextConnection ==
    \/ \E strs \in StreamLists : connect(strs)
    \/ disconnect
    \/ \E ref \in SocketRefs : onopen(ref)
    \/ \E ref \in SocketRefs, st \in LiveStates : onerror(ref, st)
    \/ oncloseAfterError
    \/ \E ref \in SocketRefs, st \in LiveStates : onclose(ref, st)
    \/ \E t \in Timers : reconnectTimer(t)

\* the registries and the dispatch of frames
NextRegistry ==
    \/ \E sym \in Symbols, iv \in Intervals, h \in KlineHandlerIds : subscribeKline(sym, iv, h)
    \/ \E sym \in Symbols, iv \in Intervals : unsubscribeKline(sym, iv)
    \/ \E sym \in Symbols, h \in TradeHandlerIds : subscribeTrade(sym, h)
    \/ \E sym \in Symbols : unsubscribeTrade(sym)
    \/ \E o \in ObserverIds : onConnectionChange(o, FALSE)
    \/ \E ref \in SocketRefs, f \in Frames : onmessage(ref, f)

Next == NextConnection \/ NextRegistry

\* every method and callback
Spec == Init /\ [][Next]_vars

\* the connection alone: no callback is ever registered
SpecConnection == Init /\ [][NextConnection]_vars

\* the connection, where every pending reconnect timeout fires in the end and
\* the close event of a failed socket follows its error event
SpecRecovery ==
    /\ Init /\ [][NextConnection]_vars
    /\ WF_vars(\E t \in Timers : reconnectTimer(t))
    /\ WF_vars(oncloseAfterError)

\* every method and callback, for the stream list of the hook and as long as
\* no more than MaxFailures closes go without an open
MayFail == reconnectAttempts < MaxFailures

NextRegistryBounded ==
    \/ \E strs \in HookStreamLists : connect(strs)
    \/ disconnect
    \/ \E ref \in SocketRefs : onopen(ref)
    \/ \E ref \in SocketRefs, st \in LiveStates : MayFail /\ onerror(ref, st)
    \/ oncloseAfterError
    \/ \E ref \in SocketRefs, st \in LiveStates : MayFail /\ onclose(ref, st)
    \/ \E t \in Timers : reconnectTimer(t)
    \/ NextRegistry

SpecRegistry == Init /\ [][NextRegistryBounded]_vars

\* the observers of the connection state
AllObserverIds == { "o1", "o2" }

Unsubscribers == [ handler : AllObserverIds, live : BOOLEAN, called : { 0, 1 } ]

NextObservers ==
    \/ \E strs \in HookStreamLists : connect(strs)
    \/ disconnect
    \/ \E ref \in SocketRefs : onopen(ref)
    \/ \E ref \in SocketRefs, st \in LiveStates : MayFail /\ onerror(ref, st)
    \/ oncloseAfterError
    \/ \E ref \in SocketRefs, st \in LiveStates : MayFail /\ onclose(ref, st)
    \/ \E t \in Timers : reconnectTimer(t)
    \/ \E o \in AllObserverIds : onConnectionChange(o, FALSE)

SpecObservers == Init /\ [][NextObservers]_vars

\* the observers whose callers keep the function onConnectionChange returned
\* and call it, while sockets open and close
NextUnsubscribe ==
    \/ \E strs \in HookStreamLists : connect(strs)
    \/ disconnect
    \/ \E ref \in SocketRefs : onopen(ref)
    \/ \E ref \in SocketRefs, st \in LiveStates : MayFail /\ onclose(ref, st)
    \/ \E o \in AllObserverIds : onConnectionChange(o, TRUE)
    \/ \E f \in Unsubscribers : unsubscribe(f)

SpecUnsubscribe == Init /\ [][NextUnsubscribe]_vars

\* the singleton: the module functions, and the methods called on the
\* instance they give
HasInstance == wsInstance # 0

NextSingleton ==
    \/ getWebSocketInstance
    \/ destroyWebSocketInstance
    \/ \E strs \in HookStreamLists : HasInstance /\ connect(strs)
    \/ \E sym \in Symbols, iv \in Intervals, h \in KlineHandlerIds :
           HasInstance /\ subscribeKline(sym, iv, h)
    \/ \E sym \in Symbols, h \in TradeHandlerIds : HasInstance /\ subscribeTrade(sym, h)
    \/ \E o \in ObserverIds : HasInstance /\ onConnectionChange(o, FALSE)
    \/ \E ref \in SocketRefs : onopen(ref)
    \/ \E ref \in SocketRefs, st \in LiveStates : MayFail /\ onclose(ref, st)
    \/ \E t \in Timers : reconnectTimer(t)

SpecSingleton == Init /\ [][NextSingleton]_vars

\* the components: renders, unmounts, and the events of the sockets between
\* the flushes of their effects
HookIntervals == { "1m" }

HookFrames ==
    { KlineFrame(sym, iv, OpenTime, TRUE) : sym \in HookSymbols \ { << >> }, iv \in HookIntervals }
      \cup { TradeFrame(sym, Price, TRUE) : sym \in HookSymbols \ { << >> } }

Idle == flushing = "none"

NextHook ==
    \/ \E c \in Components, sym \in HookSymbols, iv \in HookIntervals : hookRender(c, sym, iv)
    \/ \E c \in Components : hookEffect(c)
    \/ \E c \in Components : hookUnmount(c)
    \/ \E ref \in SocketRefs : Idle /\ onopen(ref)
    \/ \E ref \in SocketRefs, f \in HookFrames : Idle /\ onmessage(ref, f)
    \/ \E ref \in SocketRefs, st \in LiveStates : Idle /\ MayFail /\ onclose(ref, st)
    \/ \E t \in Timers : Idle /\ reconnectTimer(t)

SpecHook == Init /\ [][NextHook]_vars

\* the dispatch of frames: subscriptions, and every frame on the open sockets
NextDispatch ==
    \/ \E strs \in HookStreamLists : connect(strs)
    \/ \E ref \in SocketRefs : onopen(ref)
    \/ \E sym \in Symbols, iv \in KlineIntervals, h \in KlineHandlerIds :
           subscribeKline(sym, iv, h)
    \/ \E sym \in Symbols, h \in DispatchTradeHandlerIds : subscribeTrade(sym, h)
    \/ \E ref \in SocketRefs, f \in RawFrames : onmessage(ref, f)

SpecDispatch == Init /\ [][NextDispatch]_vars

\* the subscriptions: two keys in each registry, beside a connection that
\* opens, closes and schedules its reconnection
SubscriptionKlineHandlerIds == { "k1" }

SubscriptionTradeSymbols == { << "B", "T" >>, << "E" >> }

NextSubscriptions ==
    \/ \E strs \in HookStreamLists : connect(strs)
    \/ \E ref \in SocketRefs : onopen(ref)
    \/ \E ref \in SocketRefs, st \in LiveStates : MayFail /\ onclose(ref, st)
    \/ \E o \in ObserverIds : onConnectionChange(o, FALSE)
    \/ \E sym \in FrameSymbols, iv \in KlineIntervals, h \in SubscriptionKlineHandlerIds :
           subscribeKline(sym, iv, h)
    \/ \E sym \in FrameSymbols, iv \in KlineIntervals : unsubscribeKline(sym, iv)
    \/ \E sym \in SubscriptionTradeSymbols, h \in TradeHandlerIds : subscribeTrade(sym, h)
    \/ \E sym \in SubscriptionTradeSymbols : unsubscribeTrade(sym)

SpecSubscriptions == Init /\ [][NextSubscriptions]_vars

\* the keepalive: the connection with the firings of the keepalive intervals
NextKeepalive ==
    \/ \E strs \in HookStreamLists : connect(strs)
    \/ disconnect
    \/ \E ref \in SocketRefs : onopen(ref)
    \/ \E ref \in SocketRefs, st \in LiveStates : onclose(ref, st)
    \/ \E t \in Timers : reconnectTimer(t)
    \/ pingTimer

SpecKeepalive == Init /\ [][NextKeepalive]_vars

\* the sockets replaced by connect() and by reconnections: the connection
\* where disconnect() is never called
NextReplacement ==
    \/ \E strs \in StreamLists \ { << >> } : connect(strs)
    \/ \E ref \in SocketRefs : onopen(ref)
    \/ \E ref \in SocketRefs, st \in LiveStates : onclose(ref, st)
    \/ \E t \in Timers : reconnectTimer(t)
    \/ pingTimer

SpecReplacement == Init /\ [][NextReplacement]_vars

\* the helper functions on their own
NextHelpers ==
    \/ \E sym \in CaseSymbols, iv \in HelperIntervals : callGetKlineStreamName(sym, iv)
    \/ \E sym \in CaseSymbols : callGetTradeStreamName(sym)
    \/ \E sym \in CaseSymbols, iv \in HelperIntervals : hookStreams(sym, iv)
    \/ \E strs \in KeyLists : callCreateStreamUrl(strs)
    \/ \E data \in KlineEvents : callParseKlineData(data)

SpecHelpers == Init /\ [][NextHelpers]_vars

(***************************************************************************)
(* Steps named by what they do.                                            *)
(***************************************************************************)
\* a socket is constructed in this step
Created == LiveCount' = LiveCount + 1

\* a reconnect timeout is scheduled in this step
Scheduled == BagCardinality(timers') = BagCardinality(timers) + 1

\* the close event of the socket this.ws refers to is handled in this step
WsCloseHandled ==
    \/ pendingClose = "ws" /\ oncloseAfterError
    \/ \E st \in LiveStates : onclose("ws", st)

\* the callbacks registered with the manager
Registered ==
    MapValues(klineHandlers) \cup MapValues(tradeHandlers) \cup SeqValues(connectionHandlers)

\* the sockets that are open
OpenCount == (IF ws.state = "OPEN" THEN 1 ELSE 0) + detached["OPEN"]

\* the stream key of a frame
FrameKey(f) ==
    IF f.e = "kline" THEN getKlineStreamName(f.s, f.k[1].i) ELSE getTradeStreamName(f.s)

(***************************************************************************)
(* C1.  At most one socket created by the manager is not closed            *)
(* (CONNECTING, OPEN or CLOSING), in every reachable state.                *)
(***************************************************************************)
C1_AtMostOneLiveSocket == LiveCount <= 1

(***************************************************************************)
(* C2.  connect(S) on an open socket closes that socket, stores S, and     *)
(* opens the URL of S; every socket a reconnect timeout creates afterwards *)
(* is opened with the URL built from the set of the last connect().        *)
(***************************************************************************)
C2_ReconnectUsesLastRequested ==
    [][ /\ \A strs \in StreamLists :
             connect(strs) /\ ws.state = "OPEN"
                 => /\ detached'["CLOSING"] = detached["CLOSING"] + 1
                    /\ streams' = strs
                    /\ ws'.url = createStreamUrl(strs)
        /\ (\E t \in Timers : reconnectTimer(t)) /\ Created
                 => /\ Len(requested) = 1
                    /\ ws'.url = createStreamUrl(requested[1]) ]_vars

C2_Witness ==
    /\ ws.origin = "reconnect"
    /\ ws.state = "CONNECTING"
    /\ requested = << << KlineKey, TradeKey >> >>
    /\ ws.url = "wss://testnet.binance.vision/ws/stream?streams=bt@kline_1m/bt@trade"

(***************************************************************************)
(* C3.  At most maxReconnectAttempts reconnections are scheduled without   *)
(* an open in between; once the last of them has failed (the close of the  *)
(* newest socket finds the attempts used up and none pending) and until    *)
(* connect() is called, no timeout is scheduled, no socket is created and  *)
(* the state last announced is and stays "disconnected".                   *)
(***************************************************************************)
C3_ExhaustedStaysDisconnected ==
    [][ /\ sinceOpen' <= maxReconnectAttempts
        /\ exhausted' = "yes" => announced' = "disconnected"
        /\ exhausted = "yes" /\ ~ (\E strs \in StreamLists : connect(strs))
               => ~ Scheduled /\ ~ Created ]_vars

(***************************************************************************)
(* C4.  The k-th reconnection scheduled since the last open event          *)
(* (k = 1..5) is delayed by 1000 * 2^(k-1) ms: 1000, 2000, 4000, 8000,     *)
(* 16000; an open event resets the count, so the next one is 1000 again.   *)
(***************************************************************************)
C4_Delays == << 1000, 2000, 4000, 8000, 16000 >>

C4_BackoffDoubles ==
    [][ /\ Scheduled =>
            /\ sinceOpen' \in 1 .. 5
            /\ \A t \in BagToSet(timers') :
                 CopiesIn(t, timers') > CopiesIn(t, timers)
                     => t.delay = C4_Delays[sinceOpen'] /\ t.delay = 1000 * 2 ^ (sinceOpen' - 1)
        /\ (\E ref \in SocketRefs : onopen(ref))
               => sinceOpen' = 0 /\ reconnectAttempts' = 0 ]_vars

C4_Witness ==
    /\ sinceOpen = 5
    /\ BagIn([ delay |-> 16000, old |-> FALSE ], timers)

(***************************************************************************)
(* C5.  After the attempts were used up, connect() makes reconnection      *)
(* available again: when the socket it created closes, before or after it  *)
(* opened, a reconnection is scheduled.                                    *)
(***************************************************************************)
C5_ConnectResetsBackoff ==
    [][ exhausted = "resumed" /\ ws.origin = "connect" /\ Len(streams) > 0 /\ WsCloseHandled
            => Scheduled ]_vars

(***************************************************************************)
(* C6.  No socket is ever created by a reconnect timeout that was          *)
(* scheduled before a disconnect().                                        *)
(***************************************************************************)
C6_NoSocketFromCancelledTimer == ws.origin # "stale"

(***************************************************************************)
(* C7.  When disconnect() returns both registries, the observer set and    *)
(* the stored streams are empty, no keepalive interval is running and the  *)
(* manager holds no socket, close() having been called on the one it held; *)
(* and a callback is invoked only while it is registered, so none of those *)
(* registered before the disconnect is invoked after it.                   *)
(***************************************************************************)
C7_DisconnectCleansUp ==
    [][ /\ disconnect =>
            /\ klineHandlers' = EmptyMap
            /\ tradeHandlers' = EmptyMap
            /\ connectionHandlers' = << >>
            /\ streams' = << >>
            /\ pingInterval' = 0
            /\ activeIntervals' = 0
            /\ ws' = NoSocket
            /\ ws.state \in { "CONNECTING", "OPEN" }
                   => detached'["CLOSING"] = detached["CLOSING"] + 1
        /\ invoked' \subseteq Registered ]_vars

(***************************************************************************)
(* C8.  After disconnect() and until the next connect() the attempt        *)
(* counter is zero, so that connect() starts with the full budget.         *)
(***************************************************************************)
C8_CounterZeroAfterDisconnect == afterDisconnect => reconnectAttempts = 0

(***************************************************************************)
(* C9.  connect() with an empty stream list creates no socket, announces   *)
(* nothing and closes no socket.                                           *)
(***************************************************************************)
C9_EmptyConnectDoesNothing ==
    [][ connect(<< >>) => UNCHANGED << ws, detached, announced >> ]_vars

(***************************************************************************)
(* C10.  A stream key whose entry was removed by unsubscribeKline or       *)
(* unsubscribeTrade has no entry in either registry, and a frame for that  *)
(* key handled after the unsubscribe invokes no handler.                   *)
(***************************************************************************)
C10_NoDeliveryAfterUnsubscribe ==
    /\ \A key \in removed : key \notin DOMAIN klineHandlers /\ key \notin DOMAIN tradeHandlers
    /\ frame # NoFrame /\ FrameKey(frame) \in removed => invoked = {}

C10_Witness ==
    /\ frame # NoFrame
    /\ frame.e = "kline"
    /\ FrameKey(frame) = "bt@kline_1m"
    /\ FrameKey(frame) \in removed
    /\ invoked = {}
    /\ tradeHandlers # EmptyMap

(***************************************************************************)
(* C11.  A handler that a later subscription of its stream key replaced is *)
(* not the entry of that key in either registry, and a frame calls at most *)
(* one handler, never one that was replaced for the frame's key.           *)
(***************************************************************************)
C11_LastSubscriptionWins ==
    /\ \A pair \in replaced :
          /\ pair[1] \in DOMAIN klineHandlers => klineHandlers[pair[1]] # pair[2]
          /\ pair[1] \in DOMAIN tradeHandlers => tradeHandlers[pair[1]] # pair[2]
    /\ frame \in WellFormedFrames
           => /\ Len(calls) <= 1
              /\ \A n \in DOMAIN calls : << FrameKey(frame), calls[n].fn >> \notin replaced

C11_Witness ==
    /\ frame \in WellFormedFrames
    /\ frame.e = "trade"
    /\ << "bt@trade", "t1" >> \in replaced
    /\ << "bt@kline_1m", "k1" >> \in replaced
    /\ Len(calls) = 1
    /\ calls[1].fn = "t2"

(***************************************************************************)
(* C12.  A well-formed frame, bare or wrapped in {stream, data}, calls     *)
(* exactly the handler registered under its stream key, once, and nothing  *)
(* else: a trade event of symbol s the trade handler of lower(s)@trade     *)
(* with the payload object, a kline event of symbol s and interval i the   *)
(* kline handler of lower(s)@kline_i with the candlestick decoded from k   *)
(* (open time in seconds, prices and volume as numbers); no call when no   *)
(* handler is registered under the key.                                    *)
(***************************************************************************)
C12_Candlestick ==
    [ time   |-> 1,
      open   |-> [ num |-> 15, den |-> 10 ],
      high   |-> [ num |-> 225, den |-> 100 ],
      low    |-> [ num |-> 5, den |-> 10 ],
      close  |-> [ num |-> 2, den |-> 1 ],
      volume |-> [ num |-> 10, den |-> 1 ] ]

C12_Expected(f) ==
    IF f.e = "trade"
    THEN LET key == Str(toLowerCase(f.s)) \o "@trade"
         IN IF key \in DOMAIN tradeHandlers
            THEN << [ fn |-> tradeHandlers[key],
                      arg |-> [ e |-> "trade", s |-> f.s, k |-> << >>, p |-> f.p ] ] >>
            ELSE << >>
    ELSE LET key == Str(toLowerCase(f.s)) \o "@kline_" \o f.k[1].i
         IN IF key \in DOMAIN klineHandlers
            THEN << [ fn |-> klineHandlers[key], arg |-> C12_Candlestick ] >>
            ELSE << >>

C12_FrameReachesItsHandler ==
    frame \in WellFormedFrames
        => /\ calls = C12_Expected(frame)
           /\ invoked = { calls[n].fn : n \in DOMAIN calls }
           /\ outcome = IF calls = << >> THEN "ignored" ELSE "dispatched"

C12_Witness ==
    /\ frame = KlineFrame(<< "B", "T" >>, "5m", 1999, TRUE)
    /\ calls = << [ fn |-> "k2", arg |-> C12_Candlestick ] >>
    /\ "bt@kline_1m" \in DOMAIN klineHandlers
    /\ klineHandlers["bt@kline_1m"] = "k1"
    /\ "bt@trade" \in DOMAIN tradeHandlers

(***************************************************************************)
(* C13.  Handling a malformed frame (text that is not JSON, JSON that is   *)
(* not an object, a missing or unknown e, a kline event without k) calls   *)
(* no handler, lets no exception out of handleMessage, and changes neither *)
(* the sockets, the announced state, the attempt counter, the timers nor   *)
(* the registries.                                                         *)
(***************************************************************************)
C13_MalformedFrameDropped ==
    [][ frame' \in Malformed(WellFormedFrames)
            => /\ calls' = << >>
               /\ invoked' = {}
               /\ outcome' \in { "caught", "ignored" }
               /\ UNCHANGED << ws, detached, announced, reconnectAttempts, timers,
                               pingInterval, activeIntervals, streams, klineHandlers,
                               tradeHandlers, connectionHandlers >> ]_vars

C13_Witness ==
    /\ frame.json = "object"
    /\ frame.e = "kline"
    /\ frame.k = << >>
    /\ outcome = "caught"
    /\ calls = << >>
    /\ "bt@kline_1m" \in DOMAIN klineHandlers
    /\ ws.state = "OPEN"

(***************************************************************************)
(* C14.  Each transition calls every observer registered at that moment    *)
(* once, in registration order, with the new state: "connecting" when a    *)
(* socket is constructed, "connected" when a socket opens, "error" when an *)
(* error event is handled, "disconnected" when a close event is handled.   *)
(***************************************************************************)
C14_Notified(st) ==
    /\ Len(calls') = Len(connectionHandlers)
    /\ \A n \in DOMAIN connectionHandlers :
          calls'[n] = [ fn |-> connectionHandlers[n], arg |-> [ state |-> st ] ]

C14_ObserversNotifiedInOrder ==
    [][ /\ Created => C14_Notified("connecting")
        /\ OpenCount' = OpenCount + 1 => C14_Notified("connected")
        /\ pendingClose = "none" /\ pendingClose' # "none" => C14_Notified("error")
        /\ \/ pendingClose # "none" /\ pendingClose' = "none"
           \/ pendingClose = "none" /\ pendingClose' = "none" /\ LiveCount' = LiveCount - 1
               => C14_Notified("disconnected") ]_vars

C14_Witness ==
    /\ connectionHandlers = << "o2", "o1" >>
    /\ calls = << [ fn |-> "o2", arg |-> [ state |-> "error" ] ],
                  [ fn |-> "o1", arg |-> [ state |-> "error" ] ] >>

(***************************************************************************)
(* C15.  A function returned by onConnectionChange(o) removes its own      *)
(* registration and no other: a registration whose function was not called *)
(* (and that no disconnect() cleared) is still in the observer set, also   *)
(* when it was made for the same o as another one; after the call o is not *)
(* in the set, and a second call changes nothing.                          *)
(***************************************************************************)
C15_UnsubscribeRemovesOnlyItsOwn ==
    /\ [](\A f \in BagToSet(unsubscribers) :
              f.live => f.handler \in SeqValues(connectionHandlers))
    /\ [][ \A f \in Unsubscribers :
              unsubscribe(f)
                  => /\ f.handler \notin SeqValues(connectionHandlers')
                     /\ f.called = 1 => connectionHandlers' = connectionHandlers ]_vars

(***************************************************************************)
(* C17.  Between event handlers getState() is the state last announced to  *)
(* the observers (once one was announced).                                 *)
(***************************************************************************)
C17_StateIsTheOneAnnounced ==
    pendingClose = "none" /\ announced # "none" => getState = announced

(***************************************************************************)
(* C16.  wsInstance is null or the instance returned last, so one instance *)
(* is live at most.  getWebSocketInstance() returns the live instance when *)
(* there is one, and otherwise an instance never returned before, whose    *)
(* registries, observers and streams are empty and that holds no socket.   *)
(* destroyWebSocketInstance() on a live instance empties its registries,   *)
(* observers and streams, calls close() on its socket, drops the socket    *)
(* and sets wsInstance to null; without a live instance it changes         *)
(* nothing.                                                                *)
(***************************************************************************)
C16_Singleton ==
    /\ [](wsInstance \in { 0, got })
    /\ [][ /\ getWebSocketInstance /\ wsInstance # 0
                => got' = wsInstance /\ wsInstance' = wsInstance
           /\ getWebSocketInstance /\ wsInstance = 0
                => /\ got' > got
                   /\ wsInstance' = got'
                   /\ klineHandlers' = EmptyMap /\ tradeHandlers' = EmptyMap
                   /\ connectionHandlers' = << >> /\ streams' = << >>
                   /\ ws' = NoSocket
           /\ destroyWebSocketInstance /\ wsInstance # 0
                => /\ wsInstance' = 0
                   /\ klineHandlers' = EmptyMap /\ tradeHandlers' = EmptyMap
                   /\ connectionHandlers' = << >> /\ streams' = << >>
                   /\ ws' = NoSocket
                   /\ ws.state \in { "CONNECTING", "OPEN" }
                          => detached'["CLOSING"] = detached["CLOSING"] + 1
           /\ destroyWebSocketInstance /\ wsInstance = 0
                => UNCHANGED << wsInstance, got, ws, detached, streams, klineHandlers,
                               tradeHandlers, connectionHandlers, timers,
                               reconnectAttempts, pingInterval, activeIntervals >> ]_vars

C16_Witness ==
    /\ got = 2
    /\ wsInstance = 2
    /\ klineHandlers = EmptyMap
    /\ tradeHandlers = EmptyMap
    /\ connectionHandlers = << >>
    /\ ws = NoSocket
    /\ afterDisconnect = FALSE

(***************************************************************************)
(* C18.  When the close event of the current socket has been handled while *)
(* streams are stored and fewer than maxReconnectAttempts sockets have     *)
(* failed since the last open event, a new socket is constructed in the    *)
(* end, unless disconnect() is called first; and a socket that opens       *)
(* announces "connected".                                                  *)
(***************************************************************************)
C18_Closed ==
    /\ pendingClose = "none"
    /\ ws.state = "CLOSED"
    /\ Len(streams) > 0
    /\ failures < maxReconnectAttempts

C18_TransientFailureRecovered ==
    /\ C18_Closed ~> (ws.state = "CONNECTING" \/ ws = NoSocket)
    /\ [][ OpenCount' = OpenCount + 1 => announced' = "connected" ]_vars

(***************************************************************************)
(* C19.  When a component is rendered with new options, the cleanup of its *)
(* last effect removes the entries of the old keys first; the effect body  *)
(* that follows registers its handlers under lower(s2)@kline_i2 and        *)
(* lower(s2)@trade and calls connect() with exactly these two keys, in     *)
(* this order, which opens their combined URL; with no other component     *)
(* active the registries then hold the new keys only; and no frame handled *)
(* later calls a callback of an effect whose cleanup has run.              *)
(***************************************************************************)
C19_OldKline(c) == Str(toLowerCase(hooks[c].symbol)) \o "@kline_" \o hooks[c].interval
C19_OldTrade(c) == Str(toLowerCase(hooks[c].symbol)) \o "@trade"
C19_NewKline(c) == Str(toLowerCase(hooks'[c].symbol)) \o "@kline_" \o hooks'[c].interval
C19_NewTrade(c) == Str(toLowerCase(hooks'[c].symbol)) \o "@trade"

C19_HookResubscribes ==
    [][ /\ \A c \in Components :
              flushing = "none" /\ flushing' = c /\ hooks[c].active
                  => /\ C19_OldKline(c) \notin DOMAIN klineHandlers'
                     /\ C19_OldTrade(c) \notin DOMAIN tradeHandlers'
                     /\ ~ Created
        /\ \A c \in Components :
              flushing = c /\ flushing' = "none" /\ hooks[c].symbol # << >>
                  => /\ C19_NewKline(c) \in DOMAIN klineHandlers'
                     /\ klineHandlers'[C19_NewKline(c)] = KHandler(c, hooks'[c].run)
                     /\ C19_NewTrade(c) \in DOMAIN tradeHandlers'
                     /\ tradeHandlers'[C19_NewTrade(c)] = THandler(c, hooks'[c].run)
                     /\ streams' = << C19_NewKline(c), C19_NewTrade(c) >>
                     /\ Created
                     /\ ws'.url = WS_BASE_URL \o "/stream?streams=" \o C19_NewKline(c)
                                       \o "/" \o C19_NewTrade(c)
                     /\ (\A d \in Components \ { c } : ~ hooks[d].active)
                            => /\ DOMAIN klineHandlers' = { C19_NewKline(c) }
                               /\ DOMAIN tradeHandlers' = { C19_NewTrade(c) }
        /\ frame' # NoFrame => invoked' \cap cleaned' = {} ]_vars

C19_Witness ==
    /\ hooks["c1"].run = 2
    /\ hooks["c1"].active
    /\ hooks["c1"].symbol = << "E" >>
    /\ hooks["c2"].run = 0
    /\ "kHandler.c1.1" \in cleaned
    /\ DOMAIN klineHandlers = { "e@kline_1m" }
    /\ klineHandlers["e@kline_1m"] = "kHandler.c1.2"
    /\ streams = << "e@kline_1m", "e@trade" >>
    /\ frame.e = "kline"
    /\ frame.s = << "B", "T" >>
    /\ calls = << >>

(***************************************************************************)
(* C20.  No step, whether it handles a frame, a socket event or a timeout, *)
(* calls a callback of an effect whose cleanup has run: neither its kline  *)
(* handler, nor its trade handler, nor its connection-state setter.        *)
(***************************************************************************)
C20_NoCallbackAfterCleanup == invoked \cap cleaned = {}

C20_Witness ==
    /\ ~ hooks["c1"].mounted
    /\ HookCallbacks("c1", 1) \subseteq cleaned
    /\ hooks["c2"].active
    /\ announced = "connected"
    /\ invoked = { Setter("c2", 1) }

(***************************************************************************)
(* C21.  Once every pending effect has run, the stream list passed to the  *)
(* last connect() holds the key of every handler in the kline and trade    *)
(* registries, whatever the components and their symbols.                  *)
(***************************************************************************)
C21_AggregateStreamList ==
    flushing = "none" /\ requested # << >>
        => (DOMAIN klineHandlers) \cup (DOMAIN tradeHandlers) \subseteq SeqValues(requested[1])

(***************************************************************************)
(* C22.  The stream names do not depend on the letter case of the symbol:  *)
(* getKlineStreamName(S, I) is lower(S)@kline_I and getTradeStreamName(S)  *)
(* is lower(S)@trade, two calls whose symbols differ in case only return   *)
(* the same name, and the list the hook builds inline for (S, I) holds the *)
(* two names the manager computes for (S, I).                              *)
(***************************************************************************)
C22_Upper(c) == CASE c = "b" -> "B" [] c = "t" -> "T" [] OTHER -> c

C22_SameLetters(a, b) ==
    /\ Len(a) = Len(b)
    /\ \A i \in DOMAIN a : C22_Upper(a[i]) = C22_Upper(b[i])

RECURSIVE C22_Lower(_)
C22_Lower(sym) ==
    IF sym = << >> THEN ""
    ELSE (CASE Head(sym) = "B" -> "b" [] Head(sym) = "T" -> "t" [] OTHER -> Head(sym))
             \o C22_Lower(Tail(sym))

C22_Names == { "getKlineStreamName", "getTradeStreamName", "useWebSocket.streams" }

C22_StreamNamesIgnoreCase ==
    \A i, j \in DOMAIN returned :
        LET a == returned[i]
            b == returned[j]
        IN  /\ a.fn = "getKlineStreamName"
                => a.result = C22_Lower(a.args[1]) \o "@kline_" \o a.args[2]
            /\ a.fn = "getTradeStreamName"
                => a.result = C22_Lower(a.args[1]) \o "@trade"
            /\ a.fn \in C22_Names /\ a.fn = b.fn /\ C22_SameLetters(a.args[1], b.args[1])
                  /\ Tail(a.args) = Tail(b.args)
                => a.result = b.result
            /\ a.fn = "useWebSocket.streams" /\ b.fn = "getKlineStreamName" /\ a.args = b.args
                => a.result[1] = b.result
            /\ a.fn = "useWebSocket.streams" /\ b.fn = "getTradeStreamName"
                  /\ a.args[1] = b.args[1]
                => a.result[2] = b.result

C22_Witness ==
    /\ Len(returned) = 2
    /\ returned[1].fn = "getKlineStreamName"
    /\ returned[1].args = << << "B", "T" >>, "5m" >>
    /\ returned[2].fn = "getKlineStreamName"
    /\ returned[2].args = << << "b", "T" >>, "5m" >>
    /\ returned[2].result = "bt@kline_5m"

(***************************************************************************)
(* C23.  createStreamUrl of one key is the base URL, "/" and the key;      *)
(* createStreamUrl of N > 1 keys is the base URL, "/stream?streams=" and   *)
(* the N keys in the order given with "/" between them, each key as often  *)
(* as it is in the list.                                                   *)
(***************************************************************************)
RECURSIVE C23_Joined(_)
C23_Joined(keys) ==
    IF Len(keys) = 1 THEN keys[1]
    ELSE C23_Joined(SubSeq(keys, 1, Len(keys) - 1)) \o "/" \o keys[Len(keys)]

C23_StreamUrl ==
    \A i \in DOMAIN returned :
        LET keys == returned[i].args[1]
        IN  returned[i].fn = "createStreamUrl"
                => /\ Len(keys) = 1
                        => returned[i].result = "wss://testnet.binance.vision/ws/" \o keys[1]
                   /\ Len(keys) > 1
                        => returned[i].result =
                               "wss://testnet.binance.vision/ws/stream?streams="
                                   \o C23_Joined(keys)

C23_Witness ==
    /\ Len(returned) = 2
    /\ returned[1].fn = "createStreamUrl"
    /\ returned[1].args = << << "bt@trade" >> >>
    /\ returned[1].result = "wss://testnet.binance.vision/ws/bt@trade"
    /\ returned[2].fn = "createStreamUrl"
    /\ returned[2].args = << << "bt@trade", "bt@kline_1m", "bt@trade" >> >>
    /\ returned[2].result =
           "wss://testnet.binance.vision/ws/stream?streams=bt@trade/bt@kline_1m/bt@trade"

(***************************************************************************)
(* C24.  The time of the candlestick parseKlineData builds is the open     *)
(* time of the kline in whole seconds, rounded down: time is a natural     *)
(* number with time * 1000 <= k.t < (time + 1) * 1000.  Each call builds a *)
(* new object: two calls never return the same one.                        *)
(***************************************************************************)
C24_TimeInSeconds ==
    \A i, j \in DOMAIN returned :
        returned[i].fn = "parseKlineData"
            => LET t == returned[i].args[1].k[1].t
                   time == returned[i].result.time
               IN  /\ time \in Nat
                   /\ time * 1000 <= t
                   /\ t < time * 1000 + 1000
                   /\ i # j /\ returned[j].fn = "parseKlineData"
                        => returned[i].obj # returned[j].obj

C24_Witness ==
    /\ Len(returned) = 2
    /\ returned[1].fn = "parseKlineData"
    /\ returned[1].args[1].k[1].t = 1999
    /\ returned[1].result.time = 1
    /\ returned[2].fn = "parseKlineData"
    /\ returned[2].args[1].k[1].t = 1700999
    /\ returned[2].result.time = 1700
    /\ returned[1].obj # returned[2].obj

(***************************************************************************)
(* C25.  subscribeKline and subscribeTrade set the entry of the key they   *)
(* compute, unsubscribeKline and unsubscribeTrade remove it, and none of   *)
(* the four changes anything else: not the sockets, the stored streams,    *)
(* the attempt counter, the keepalive, the pending timeouts, the           *)
(* observers, the other registry or another entry of the same registry.    *)
(* Unsubscribing a key that has no entry leaves both registries as they    *)
(* are.                                                                    *)
(***************************************************************************)
C25_Rest ==
    << ws, detached, streams, reconnectAttempts, pingInterval, activeIntervals, timers,
       connectionHandlers, announced >>

\* the maps m and n have the same entries, the one of key aside
C25_SameButFor(m, n, key) ==
    /\ (DOMAIN m) \ { key } = (DOMAIN n) \ { key }
    /\ \A k \in (DOMAIN m) \ { key } : m[k] = n[k]

C25_SubscriptionsTouchOnlyTheirKey ==
    [][ /\ \A sym \in FrameSymbols, iv \in KlineIntervals, h \in SubscriptionKlineHandlerIds :
              subscribeKline(sym, iv, h)
                  => /\ UNCHANGED << C25_Rest, tradeHandlers >>
                     /\ C25_SameButFor(klineHandlers, klineHandlers',
                                       getKlineStreamName(sym, iv))
                     /\ klineHandlers'[getKlineStreamName(sym, iv)] = h
        /\ \A sym \in FrameSymbols, iv \in KlineIntervals :
              unsubscribeKline(sym, iv)
                  => /\ UNCHANGED << C25_Rest, tradeHandlers >>
                     /\ C25_SameButFor(klineHandlers, klineHandlers',
                                       getKlineStreamName(sym, iv))
                     /\ getKlineStreamName(sym, iv) \notin DOMAIN klineHandlers'
                     /\ getKlineStreamName(sym, iv) \notin DOMAIN klineHandlers
                            => klineHandlers' = klineHandlers
        /\ \A sym \in SubscriptionTradeSymbols, h \in TradeHandlerIds :
              subscribeTrade(sym, h)
                  => /\ UNCHANGED << C25_Rest, klineHandlers >>
                     /\ C25_SameButFor(tradeHandlers, tradeHandlers',
                                       getTradeStreamName(sym))
                     /\ tradeHandlers'[getTradeStreamName(sym)] = h
        /\ \A sym \in SubscriptionTradeSymbols :
              unsubscribeTrade(sym)
                  => /\ UNCHANGED << C25_Rest, klineHandlers >>
                     /\ C25_SameButFor(tradeHandlers, tradeHandlers',
                                       getTradeStreamName(sym))
                     /\ getTradeStreamName(sym) \notin DOMAIN tradeHandlers'
                     /\ getTradeStreamName(sym) \notin DOMAIN tradeHandlers
                            => tradeHandlers' = tradeHandlers ]_vars

C25_Witness ==
    /\ ws.state = "OPEN"
    /\ pingInterval = 1
    /\ detached["CLOSING"] = 1
    /\ streams = << "bt@kline_1m", "bt@trade" >>
    /\ connectionHandlers = << "o1" >>
    /\ DOMAIN klineHandlers = { "bt@kline_5m" }
    /\ DOMAIN tradeHandlers = { "e@trade" }
    /\ removed = { "bt@kline_1m", "bt@trade" }

(***************************************************************************)
(* C26.  A keepalive callback calls send() only on the socket this.ws      *)
(* refers to and only while its readyState is OPEN: never on a socket      *)
(* that is connecting, closing or closed, never when this.ws is null.      *)
(***************************************************************************)
C26_PingOnlyOnOpenSocket ==
    sent # "none" => sent = "OPEN" /\ ws # NoSocket /\ ws.state = "OPEN"

C26_Witness ==
    /\ sent = "OPEN"
    /\ afterDisconnect = FALSE
    /\ detached["CLOSING"] = 1
    /\ activeIntervals = 1

(***************************************************************************)
(* C27.  The handler of an error event announces "error" and does nothing  *)
(* else: it calls close() on no socket, constructs none, leaves the        *)
(* keepalive running and the attempt counter, the stored streams and the   *)
(* pending timeouts as they are.  A reconnection is scheduled only by the  *)
(* step that handles a close event.                                        *)
(***************************************************************************)
C27_ErrorHandled == pendingClose = "none" /\ pendingClose' # "none"

C27_CloseHandled ==
    \/ pendingClose # "none" /\ pendingClose' = "none"
    \/ pendingClose = "none" /\ pendingClose' = "none" /\ LiveCount' = LiveCount - 1

C27_ErrorOnlyAnnounces ==
    [][ /\ C27_ErrorHandled
            => /\ announced' = "error"
               /\ UNCHANGED << reconnectAttempts, streams, timers, pingInterval,
                               activeIntervals, klineHandlers, tradeHandlers,
                               connectionHandlers >>
               /\ detached'["CLOSING"] <= detached["CLOSING"]
               /\ ws'.state = "CLOSING" => ws.state = "CLOSING"
               /\ ws'.url = ws.url
               /\ LiveCount' <= LiveCount
        /\ Scheduled => C27_CloseHandled ]_vars

C27_Witness ==
    /\ pendingClose = "ws"
    /\ announced = "error"
    /\ ws.state = "CLOSED"
    /\ pingInterval = 1
    /\ activeIntervals = 1
    /\ reconnectAttempts = 0
    /\ timers = EmptyBag

(***************************************************************************)
(* C28.  At most one keepalive interval started by the manager is running, *)
(* and none is running while the last transition announced is the close    *)
(* of a socket.                                                            *)
(***************************************************************************)
C28_AtMostOneKeepalive ==
    /\ activeIntervals <= 1
    /\ announced = "disconnected" => activeIntervals = 0

(***************************************************************************)
(* C29.  While the manager has a current socket that is connecting or      *)
(* open, the close event of another socket (one that connect() or a        *)
(* reconnection replaced) announces nothing, leaves the keepalive running, *)
(* leaves the attempt counter as it is and schedules no reconnection.      *)
(***************************************************************************)
C29_ReplacedSocketCloses ==
    /\ pendingClose = "none"
    /\ pendingClose' = "none"
    /\ ws.state \in { "CONNECTING", "OPEN" }
    /\ ws' = ws
    /\ DetachedCount' = DetachedCount - 1

C29_ReplacedSocketEventsIgnored ==
    [][ C29_ReplacedSocketCloses
            => /\ announced' = announced
               /\ UNCHANGED << pingInterval, activeIntervals, timers, reconnectAttempts >> ]_vars

(***************************************************************************)
(* C30.  While the socket this.ws refers to is open (its open event was    *)
(* handled when it became so), this.pingInterval holds a running           *)
(* keepalive interval.                                                     *)
(***************************************************************************)
C30_KeepaliveWhileOpen ==
    pendingClose = "none" /\ ws.state = "OPEN" => pingInterval = 1 /\ activeIntervals >= 1

====
